---- MODULE Spec2Model ----
(***************************************************************************)
(* Model of snowflake-api's resilient request layer (connection.rs), of    *)
(* the local callback listener and the proof key of the external-browser   *)
(* SSO flow (browser.rs), and of the flow that drives them with the        *)
(* payloads of requests.rs.                                                *)
(*                                                                         *)
(* Text is modelled as a sequence of bytes (0..255), so that splitting,    *)
(* prefix matching, slicing and percent-decoding are computed the way the  *)
(* code computes them.                                                     *)
(***************************************************************************)
EXTENDS Integers, Sequences, FiniteSets, TLC

VARIABLES
    calls,      \* per logical call on the shared Connection: its position and locals
    nextUuid,   \* the correlation-id generator: ids below nextUuid have been issued
    listener,   \* the local callback listener: unbound, bound to a port, or failed
    backlog,    \* connections made to the listener and not yet accepted
    connects,   \* connections clients have made so far
    accepted,   \* connections the listener has accepted so far
    stream,     \* the accepted connection: bytes that arrived, peer state, bytes delivered
    wft,        \* wait_for_token: its position, locals and result
    sso         \* the browser SSO flow: its state, proof key, port, token and payloads

connVars == <<calls, nextUuid>>

browserVars == <<listener, backlog, connects, accepted, stream, wft>>

vars == <<calls, nextUuid, listener, backlog, connects, accepted, stream, wft, sso>>

(***************************************************************************)
(* Bounds                                                                  *)
(***************************************************************************)
\* logical calls (tasks) that share the one Connection
NumCalls == 2

\* correlation ids the generator may issue in one run
MaxUuid == 9

\* units a callback token is put together from
MaxUnits == 2

\* connections clients make to the listener
MaxClients == 2

\* physical attempts the concurrent callers make between them in one run
MaxConcAttempts == 5

Calls == 1..NumCalls

(***************************************************************************)
(* connection.rs: QueryType and its (path, accept-mime) table              *)
(***************************************************************************)
QueryType == {"LoginRequest", "TokenRequest", "CloseSession", "JsonQuery", "ArrowQuery"}

\* ArrowQuery asks for the JSON mime type, as JsonQuery does
query_context_collide(q) ==
    CASE q = "LoginRequest" -> [path |-> "session/v1/login-request", accept_mime |-> "application/json"]
      [] q = "TokenRequest" -> [path |-> "/session/token-request", accept_mime |-> "application/snowflake"]
      [] q = "CloseSession" -> [path |-> "session", accept_mime |-> "application/snowflake"]
      [] q = "JsonQuery" -> [path |-> "queries/v1/query-request", accept_mime |-> "application/json"]
      [] q = "ArrowQuery" -> [path |-> "queries/v1/query-request", accept_mime |-> "application/json"]

query_context(q) ==
    CASE q = "LoginRequest" -> [path |-> "session/v1/login-request", accept_mime |-> "application/json"]
      [] q = "TokenRequest" -> [path |-> "/session/token-request", accept_mime |-> "application/snowflake"]
      [] q = "CloseSession" -> [path |-> "session", accept_mime |-> "application/snowflake"]
      [] q = "JsonQuery" -> [path |-> "queries/v1/query-request", accept_mime |-> "application/json"]
      [] q = "ArrowQuery" -> [path |-> "queries/v1/query-request", accept_mime |-> "application/snowflake"]

(***************************************************************************)
(* connection.rs: default_client_builder                                   *)
(*                                                                         *)
(* ExponentialBackoff::builder().build_with_max_retries(3), and the chain  *)
(* .with(RetryTransientMiddleware).with(UuidMiddleware): reqwest_middleware*)
(* runs the layers in the order they were added, each wrapping the next,   *)
(* so a layer added later runs once per pass of every layer before it.     *)
(***************************************************************************)
MaxRetries == 3

\* the two layers added in the other order
MiddlewareChain_UuidFirst == <<"Uuid", "RetryTransient">>

MiddlewareChain == <<"RetryTransient", "Uuid">>

Position(m) == CHOOSE i \in 1..Len(MiddlewareChain) : MiddlewareChain[i] = m

\* the Uuid layer is wrapped by the retry loop: it sees every physical attempt
UuidInsideRetry == Position("Uuid") > Position("RetryTransient")

(***************************************************************************)
(* What one physical attempt can come back with: an HTTP response with a   *)
(* status, a connection-level error (connect, timeout, reset), or another  *)
(* reqwest error (redirect loop, body, decode).                            *)
(***************************************************************************)
StatusCodes == {200, 404, 408, 429, 500}

Outcomes ==
    [kind : {"response"}, status : StatusCodes]
    \cup [kind : {"connect_error", "other_error"}, status : {0}]

\* every 4xx is taken for transient
default_on_request_success_retry4xx(status) ==
    IF status >= 400 /\ status <= 599 THEN "Transient"
    ELSE IF status >= 200 /\ status <= 299 THEN "None"
    ELSE "Fatal"

\* RetryTransientMiddleware::new_with_policy uses the default strategy:
\* 5xx, 408 and 429 are transient, every other 4xx is fatal, 2xx is a success
default_on_request_success(status) ==
    IF status >= 500 /\ status <= 599 THEN "Transient"
    ELSE IF status >= 400 /\ status <= 499 /\ status # 408 /\ status # 429 THEN "Fatal"
    ELSE IF status >= 200 /\ status <= 299 THEN "None"
    ELSE IF status = 408 \/ status = 429 THEN "Transient"
    ELSE "Fatal"

default_on_request_failure(kind) ==
    IF kind = "connect_error" THEN "Transient" ELSE "Fatal"

Retryable(o) ==
    IF o.kind = "response" THEN default_on_request_success(o.status)
    ELSE default_on_request_failure(o.kind)

\* the retry loop runs another attempt after a transient outcome while the
\* retries already made are below the policy's maximum
ShouldRetry(o, n_past_retries) ==
    Retryable(o) = "Transient" /\ n_past_retries < MaxRetries

(***************************************************************************)
(* Results of request() and get_chunk(): Ok, a ConnectionError variant     *)
(* (with the failure that caused it), or a panic of the calling task.      *)
(***************************************************************************)
NoResult == [kind |-> "none", variant |-> "none", cause |-> "none"]

Ok == [kind |-> "Ok", variant |-> "none", cause |-> "none"]

Err(variant, cause) == [kind |-> "Err", variant |-> variant, cause |-> cause]

Panic(cause) == [kind |-> "panic", variant |-> "none", cause |-> cause]

IdleCall ==
    [pc |-> "idle", op |-> "none", intent |-> "none", path |-> "", accept_mime |-> "",
     outer_id |-> 0, ids |-> <<>>, outcomes |-> <<>>, result |-> NoResult]

(***************************************************************************)
(* Connection::request, up to the point where the request is handed to the *)
(* client: resolve the context, build the URL (Url::parse_with_params),    *)
(* the Accept header and the optional Authorization header                 *)
(* (HeaderValue::from_str), attach the JSON body, send.                    *)
(*   url_ok  : the URL built from account_identifier parses                *)
(*   auth    : "none", "valid" or "invalid" as a header value              *)
(*   body_ok : the body serializes to JSON                                 *)
(***************************************************************************)
Sending(c, op, q, context) ==
    /\ ~UuidInsideRetry => nextUuid <= MaxUuid
    /\ calls' = [calls EXCEPT ![c] =
            [IdleCall EXCEPT !.pc = "sending", !.op = op, !.intent = q,
                             !.path = context.path, !.accept_mime = context.accept_mime,
                             !.outer_id = IF UuidInsideRetry THEN 0 ELSE nextUuid]]
    /\ nextUuid' = IF UuidInsideRetry THEN nextUuid ELSE nextUuid + 1

Finished(c, op, q, context, result) ==
    /\ calls' = [calls EXCEPT ![c] =
            [IdleCall EXCEPT !.pc = "done", !.op = op, !.intent = q,
                             !.path = context.path, !.accept_mime = context.accept_mime,
                             !.result = result]]
    /\ UNCHANGED nextUuid

request(c, query_type, url_ok, auth, body_ok) ==
    /\ calls[c].pc = "idle"
    /\ UNCHANGED browserVars
    /\ LET context == query_context(query_type) IN
        IF ~url_ok
        THEN Finished(c, "request", query_type, context, Err("UrlParsing", "url"))
        ELSE IF auth = "invalid"
        THEN Finished(c, "request", query_type, context, Err("InvalidHeader", "header"))
        ELSE IF ~body_ok
        THEN Finished(c, "request", query_type, context,
                      Err("RequestMiddlewareError", "serialization"))
        ELSE Sending(c, "request", query_type, context)

(***************************************************************************)
(* Connection::get_chunk: every header is converted with                   *)
(* HeaderName::from_bytes(..).unwrap() / HeaderValue::from_bytes(..)       *)
(* .unwrap(), then the GET is sent through the same client.                *)
(*   header : "valid", "invalid_name" or "invalid_value"                   *)
(***************************************************************************)
NoContext == [path |-> "", accept_mime |-> ""]

get_chunk(c, url_ok, header) ==
    /\ calls[c].pc = "idle"
    /\ UNCHANGED browserVars
    /\ IF header # "valid"
       THEN /\ calls' = [calls EXCEPT ![c] =
                    [IdleCall EXCEPT !.pc = "panicked", !.op = "get_chunk",
                                     !.result = Panic(header)]]
            /\ UNCHANGED nextUuid
       ELSE IF ~url_ok
       THEN Finished(c, "get_chunk", "none", NoContext, Err("RequestMiddlewareError", "url"))
       ELSE Sending(c, "get_chunk", "none", NoContext)

(***************************************************************************)
(* One physical attempt of a call that is in the client's send(): the      *)
(* attempt goes out carrying a correlation id and comes back with outcome  *)
(* o; the retry layer then either schedules another attempt or hands the   *)
(* outcome back to send()'s caller.                                        *)
(***************************************************************************)
UuidMiddleware(c) == IF UuidInsideRetry THEN nextUuid ELSE calls[c].outer_id

\* the backoff sleep holds the shared client: no attempt goes out while any
\* call is waiting between retries
Attempt_BlockedBySleeper(c, o) ==
    /\ calls[c].pc = "sending"
    /\ \A d \in DOMAIN calls : calls[d].pc # "backoff"
    /\ UNCHANGED browserVars
    /\ UuidInsideRetry => nextUuid <= MaxUuid
    /\ nextUuid' = IF UuidInsideRetry THEN nextUuid + 1 ELSE nextUuid
    /\ LET n_past_retries == Len(calls[c].outcomes)
           stamped == [calls[c] EXCEPT !.ids = Append(@, UuidMiddleware(c)),
                                       !.outcomes = Append(@, o)]
       IN calls' = [calls EXCEPT ![c] =
            IF ShouldRetry(o, n_past_retries)
            THEN [stamped EXCEPT !.pc = "backoff"]
            ELSE IF o.kind = "response"
            THEN [stamped EXCEPT !.pc = "body"]
            ELSE [stamped EXCEPT !.pc = "done",
                                 !.result = Err("RequestMiddlewareError", "transport")]]

Attempt(c, o) ==
    /\ calls[c].pc = "sending"
    /\ UNCHANGED browserVars
    /\ UuidInsideRetry => nextUuid <= MaxUuid
    /\ nextUuid' = IF UuidInsideRetry THEN nextUuid + 1 ELSE nextUuid
    /\ LET n_past_retries == Len(calls[c].outcomes)
           stamped == [calls[c] EXCEPT !.ids = Append(@, UuidMiddleware(c)),
                                       !.outcomes = Append(@, o)]
       IN calls' = [calls EXCEPT ![c] =
            IF ShouldRetry(o, n_past_retries)
            THEN [stamped EXCEPT !.pc = "backoff"]
            ELSE IF o.kind = "response"
            THEN [stamped EXCEPT !.pc = "body"]
            ELSE [stamped EXCEPT !.pc = "done",
                                 !.result = Err("RequestMiddlewareError", "transport")]]

\* the backoff sleep of the retry policy ends
Backoff(c) ==
    /\ calls[c].pc = "backoff"
    /\ UNCHANGED browserVars
    /\ calls' = [calls EXCEPT ![c].pc = "sending"]
    /\ UNCHANGED nextUuid

(***************************************************************************)
(* After send() returned a response (of any status): request() reads the   *)
(* body and deserializes it with resp.json::<R>(), whose error type is     *)
(* reqwest::Error; get_chunk() reads the raw bytes with bytes().           *)
(*   body : "matches" (JSON of shape R), "mismatch" (anything else) or     *)
(*          "read_error" (the body could not be read from the connection)  *)
(***************************************************************************)
BodyOutcomes == {"matches", "mismatch", "read_error"}

\* the body is parsed with serde_json directly, whose error is its own variant
json_serde(body) ==
    CASE body = "matches" -> Ok
      [] body = "mismatch" -> Err("Deserialization", "deserialization")
      [] body = "read_error" -> Err("RequestError", "transport")

json(body) ==
    CASE body = "matches" -> Ok
      [] body = "mismatch" -> Err("RequestError", "deserialization")
      [] body = "read_error" -> Err("RequestError", "transport")

bytes(body) ==
    IF body = "read_error" THEN Err("RequestError", "transport") ELSE Ok

request_json(c, body) ==
    /\ calls[c].pc = "body"
    /\ UNCHANGED browserVars
    /\ calls[c].op = "request"
    /\ calls' = [calls EXCEPT ![c].pc = "done", ![c].result = json(body)]
    /\ UNCHANGED nextUuid

get_chunk_bytes(c, body) ==
    /\ calls[c].pc = "body"
    /\ UNCHANGED browserVars
    /\ calls[c].op = "get_chunk"
    /\ calls' = [calls EXCEPT ![c].pc = "done", ![c].result = bytes(body)]
    /\ UNCHANGED nextUuid

\* the call's future completes; its locals are dropped, the Connection keeps nothing
Return(c) ==
    /\ calls[c].pc = "done"
    /\ UNCHANGED browserVars
    /\ calls' = [calls EXCEPT ![c] = IdleCall]
    /\ UNCHANGED nextUuid

(***************************************************************************)
(* browser.rs: text helpers.  A string is the sequence of its bytes.       *)
(***************************************************************************)
\* "/?token", without the '='
TokenPrefix_NoEquals == <<47, 63, 116, 111, 107, 101, 110>>

\* "/?token="
TokenPrefix == <<47, 63, 116, 111, 107, 101, 110, 61>>

\* char::is_whitespace on the ASCII range: TAB, LF, VT, FF, CR, SPACE
is_whitespace(b) == b \in {9, 10, 11, 12, 13, 32}

RECURSIVE Split(_, _, _, _)
Split(s, i, cur, acc) ==
    IF i > Len(s)
    THEN IF cur = <<>> THEN acc ELSE Append(acc, cur)
    ELSE IF is_whitespace(s[i])
    THEN Split(s, i + 1, <<>>, IF cur = <<>> THEN acc ELSE Append(acc, cur))
    ELSE Split(s, i + 1, Append(cur, s[i]), acc)

\* str::split_whitespace: the maximal runs of non-whitespace, in order
split_whitespace(s) == Split(s, 1, <<>>, <<>>)

\* the test comes out inverted
starts_with_inverted(s, prefix) ==
    ~(Len(s) >= Len(prefix) /\ SubSeq(s, 1, Len(prefix)) = prefix)

starts_with(s, prefix) ==
    Len(s) >= Len(prefix) /\ SubSeq(s, 1, Len(prefix)) = prefix

\* the slice starts one byte early
SliceFrom_OneEarly(s, n) == SubSeq(s, n, Len(s))

\* &s[n..]
SliceFrom(s, n) == SubSeq(s, n + 1, Len(s))

\* the value of a hexadecimal digit, -1 for any other byte
from_hex_digit(b) ==
    IF b >= 48 /\ b <= 57 THEN b - 48
    ELSE IF b >= 65 /\ b <= 70 THEN b - 55
    ELSE IF b >= 97 /\ b <= 102 THEN b - 87
    ELSE -1

(***************************************************************************)
(* urlencoding::decode: every %XX with two hexadecimal digits becomes the  *)
(* byte XX; a % that is not followed by two hexadecimal digits is kept as  *)
(* it is; '+' is not touched.  The bytes must then be valid UTF-8.         *)
(***************************************************************************)
RECURSIVE decode_binary(_, _, _)
decode_binary(data, i, out) ==
    IF i > Len(data) THEN out
    ELSE IF data[i] # 37 THEN decode_binary(data, i + 1, Append(out, data[i]))
    ELSE IF Len(data) - i < 2 THEN out \o SubSeq(data, i, Len(data))
    ELSE IF from_hex_digit(data[i + 1]) = -1
    THEN decode_binary(data, i + 1, Append(out, 37))
    ELSE IF from_hex_digit(data[i + 2]) = -1
    THEN decode_binary(data, i + 2, out \o <<37, data[i + 1]>>)
    ELSE decode_binary(data, i + 3,
            Append(out, 16 * from_hex_digit(data[i + 1]) + from_hex_digit(data[i + 2])))

IsCont(s, i) == i <= Len(s) /\ s[i] >= 128 /\ s[i] <= 191

IsContIn(s, i, lo, hi) == i <= Len(s) /\ s[i] >= lo /\ s[i] <= hi

\* String::from_utf8 / str::from_utf8: well-formed UTF-8 from position i on
RECURSIVE Utf8From(_, _)
Utf8From(s, i) ==
    IF i > Len(s) THEN TRUE
    ELSE IF s[i] <= 127 THEN Utf8From(s, i + 1)
    ELSE IF s[i] >= 194 /\ s[i] <= 223 THEN IsCont(s, i + 1) /\ Utf8From(s, i + 2)
    ELSE IF s[i] = 224
    THEN IsContIn(s, i + 1, 160, 191) /\ IsCont(s, i + 2) /\ Utf8From(s, i + 3)
    ELSE IF s[i] = 237
    THEN IsContIn(s, i + 1, 128, 159) /\ IsCont(s, i + 2) /\ Utf8From(s, i + 3)
    ELSE IF s[i] >= 225 /\ s[i] <= 239
    THEN IsCont(s, i + 1) /\ IsCont(s, i + 2) /\ Utf8From(s, i + 3)
    ELSE IF s[i] = 240
    THEN IsContIn(s, i + 1, 144, 191) /\ IsCont(s, i + 2) /\ IsCont(s, i + 3)
         /\ Utf8From(s, i + 4)
    ELSE IF s[i] >= 241 /\ s[i] <= 243
    THEN IsCont(s, i + 1) /\ IsCont(s, i + 2) /\ IsCont(s, i + 3) /\ Utf8From(s, i + 4)
    ELSE IF s[i] = 244
    THEN IsContIn(s, i + 1, 128, 143) /\ IsCont(s, i + 2) /\ IsCont(s, i + 3)
         /\ Utf8From(s, i + 4)
    ELSE FALSE

from_utf8(s) == Utf8From(s, 1)

(***************************************************************************)
(* browser.rs: BrowserAuthError and the results of the listener functions  *)
(***************************************************************************)
NoOutcome == [kind |-> "none", value |-> <<>>]

OkToken(token) == [kind |-> "Ok", value |-> token]

BrowserAuthError(kind, value) == [kind |-> kind, value |-> value]

urlencoding_decode(data) ==
    LET decoded == decode_binary(data, 1, <<>>) IN
    IF from_utf8(decoded) THEN OkToken(decoded) ELSE BrowserAuthError("DecodeFailed", <<>>)

(***************************************************************************)
(* browser.rs: extract_token_from_request                                  *)
(***************************************************************************)
\* the prefix is looked for first: a line without a path is reported as
\* MissingToken
extract_token_from_request_PrefixFirst(request_line) ==
    LET parts == split_whitespace(request_line)
        path == IF Len(parts) >= 2 THEN parts[2] ELSE <<>>
    IN IF ~starts_with(path, TokenPrefix) THEN BrowserAuthError("MissingToken", path)
       ELSE IF Len(parts) < 2 THEN BrowserAuthError("InvalidRequest", <<>>)
       ELSE urlencoding_decode(SliceFrom(path, 8))

extract_token_from_request(request_line) ==
    LET parts == split_whitespace(request_line) IN
    IF Len(parts) < 2 THEN BrowserAuthError("InvalidRequest", <<>>)
    ELSE LET path == parts[2] IN
         IF ~starts_with(path, TokenPrefix) THEN BrowserAuthError("MissingToken", path)
         ELSE urlencoding_decode(SliceFrom(path, 8))

(***************************************************************************)
(* What a client may send on its connection: a request line put together   *)
(* from a method, a path (a head followed by a token of up to MaxUnits     *)
(* units), an optional version and an optional terminator, or a line of    *)
(* one word only.                                                          *)
(***************************************************************************)
\* "GET", "POST", and no method at all
Methods == {<<71, 69, 84>>, <<80, 79, 83, 84>>, <<>>}

\* "/?token=", "/?token", "/callback"
PathHeads == {TokenPrefix, <<47, 63, 116, 111, 107, 101, 110>>,
              <<47, 99, 97, 108, 108, 98, 97, 99, 107>>}

\* "xyz", "%20", "%c3", "%a9", "%", "%4", " ", and the lone byte 0xE9
TokenUnits == {<<120, 121, 122>>, <<37, 50, 48>>, <<37, 99, 51>>, <<37, 97, 57>>,
               <<37>>, <<37, 52>>, <<32>>, <<233>>}

RECURSIVE TokensUpTo(_)
TokensUpTo(n) ==
    IF n = 0 THEN {<<>>}
    ELSE LET shorter == TokensUpTo(n - 1) IN
         shorter \cup {t \o u : t \in shorter, u \in TokenUnits}

Tokens == TokensUpTo(MaxUnits)

\* " HTTP/1.1", or nothing
Versions == {<<32, 72, 84, 84, 80, 47, 49, 46, 49>>, <<>>}

\* "\r\n\r\n", or nothing
Terminators == {<<13, 10, 13, 10>>, <<>>}

Requests ==
    {m \o <<32>> \o h \o t \o v \o e :
        m \in Methods, h \in PathHeads, t \in Tokens, v \in Versions, e \in Terminators}
    \cup {<<71, 69, 84>> \o e : e \in Terminators}
    \cup {<<13, 10, 13, 10>>}

\* ports the OS may assign to 127.0.0.1:0
Ports == {49152, 49153}

(***************************************************************************)
(* browser.rs: create_local_listener                                       *)
(*   outcome : "ok", "bind_failed" (TcpListener::bind fails) or            *)
(*             "local_addr_failed" (local_addr fails)                      *)
(***************************************************************************)
NoListener == [state |-> "none", port |-> 0, result |-> "none"]

\* the port returned is the one of the address asked for, 127.0.0.1:0
create_local_listener_PortAskedFor(outcome, port) ==
    /\ listener.state = "none"
    /\ UNCHANGED connVars
    /\ listener' =
         CASE outcome = "bind_failed" ->
                [state |-> "failed", port |-> 0, result |-> "BindFailed"]
           [] outcome = "local_addr_failed" ->
                [state |-> "failed", port |-> 0, result |-> "LocalAddrFailed"]
           [] outcome = "ok" ->
                [state |-> "bound", port |-> 0, result |-> "Ok"]
    /\ UNCHANGED <<backlog, connects, accepted, stream, wft>>

create_local_listener(outcome, port) ==
    /\ listener.state = "none"
    /\ UNCHANGED connVars
    /\ listener' =
         CASE outcome = "bind_failed" ->
                [state |-> "failed", port |-> 0, result |-> "BindFailed"]
           [] outcome = "local_addr_failed" ->
                [state |-> "failed", port |-> 0, result |-> "LocalAddrFailed"]
           [] outcome = "ok" ->
                [state |-> "bound", port |-> port, result |-> "Ok"]
    /\ UNCHANGED <<backlog, connects, accepted, stream, wft>>

(***************************************************************************)
(* The peers of the listener.  A connection to the bound port completes in *)
(* the kernel and waits in the backlog; what its client sends is seen only *)
(* once the connection has been accepted and is being read.                *)
(***************************************************************************)
NoResponse == [status |-> 0, content_type |-> "", connection |-> ""]

\* the fixed confirmation page: HTTP/1.1 200 OK, text/html, Connection: close
Response == [status |-> 200, content_type |-> "text/html", connection |-> "close"]

NoStream ==
    [state |-> "none", inbuf |-> <<>>, eof |-> FALSE, reset |-> FALSE,
     delivered |-> NoResponse]

ClientConnect ==
    /\ listener.state = "bound"
    /\ UNCHANGED connVars
    /\ connects < MaxClients
    /\ connects' = connects + 1
    /\ backlog' = backlog + 1
    /\ UNCHANGED <<listener, accepted, stream, wft>>

\* the client sends one of the given requests
ClientSend(requests) ==
    /\ stream.state = "open"
    /\ UNCHANGED connVars
    /\ wft.pc = "read_line"
    /\ stream.inbuf = <<>> /\ ~stream.eof /\ ~stream.reset
    /\ \E data \in requests : stream' = [stream EXCEPT !.inbuf = data]
    /\ UNCHANGED <<listener, backlog, connects, accepted, wft>>

\* the client closes its socket
ClientClose ==
    /\ stream.state = "open"
    /\ UNCHANGED connVars
    /\ ~stream.eof /\ ~stream.reset
    /\ stream' = [stream EXCEPT !.eof = TRUE]
    /\ UNCHANGED <<listener, backlog, connects, accepted, wft>>

\* the connection is reset: the listener's reads and writes on it fail
ClientReset ==
    /\ stream.state = "open"
    /\ UNCHANGED connVars
    /\ ~stream.eof /\ ~stream.reset
    /\ stream' = [stream EXCEPT !.reset = TRUE]
    /\ UNCHANGED <<listener, backlog, connects, accepted, wft>>

(***************************************************************************)
(* browser.rs: wait_for_token                                              *)
(***************************************************************************)
IdleWait ==
    [pc |-> "idle", request_line |-> <<>>, token |-> <<>>, wrote |-> "none",
     result |-> NoOutcome]

Returned(result) ==
    /\ wft' = [wft EXCEPT !.pc = "returned", !.result = result]
    /\ stream' = IF stream.state = "open" THEN [stream EXCEPT !.state = "closed"] ELSE stream

wait_for_token ==
    /\ wft.pc = "idle"
    /\ UNCHANGED connVars
    /\ listener.state = "bound"
    /\ wft' = [wft EXCEPT !.pc = "accept"]
    /\ UNCHANGED <<listener, backlog, connects, accepted, stream>>

\* listener.accept(): blocks until a connection is waiting, or fails
accept(io_ok) ==
    /\ wft.pc = "accept"
    /\ UNCHANGED connVars
    /\ IF io_ok
       THEN /\ backlog > 0
            /\ backlog' = backlog - 1
            /\ accepted' = accepted + 1
            /\ stream' = [NoStream EXCEPT !.state = "open"]
            /\ wft' = [wft EXCEPT !.pc = "read_line"]
       ELSE /\ Returned(BrowserAuthError("AcceptFailed", <<>>))
            /\ UNCHANGED <<backlog, accepted>>
    /\ UNCHANGED <<listener, connects>>

HasLineEnd(buf) == \E i \in 1..Len(buf) : buf[i] = 10

\* BufRead::read_line: the bytes up to and including the first LF, or all
\* of them at end of stream
LineOf(buf) ==
    IF HasLineEnd(buf)
    THEN SubSeq(buf, 1, CHOOSE i \in 1..Len(buf) : buf[i] = 10 /\ \A j \in 1..(i - 1) : buf[j] # 10)
    ELSE buf

\* the read does not wait: it returns with whatever has arrived so far
read_line_WhatHasArrived ==
    /\ wft.pc = "read_line"
    /\ UNCHANGED connVars
    /\ IF stream.reset
       THEN Returned(BrowserAuthError("ReadFailed", <<>>))
       ELSE LET request_line == LineOf(stream.inbuf) IN
               IF ~from_utf8(request_line)
               THEN Returned(BrowserAuthError("ReadFailed", <<>>))
               ELSE LET token == extract_token_from_request(request_line) IN
                    IF token.kind = "Ok"
                    THEN /\ wft' = [wft EXCEPT !.pc = "write", !.request_line = request_line,
                                               !.token = token.value]
                         /\ UNCHANGED stream
                    ELSE /\ wft' = [wft EXCEPT !.pc = "returned",
                                               !.request_line = request_line,
                                               !.result = token]
                         /\ stream' = [stream EXCEPT !.state = "closed"]
    /\ UNCHANGED <<listener, backlog, connects, accepted>>

\* a line the extraction rejects is dropped and the next connection is
\* waited for
read_line_AcceptAgain ==
    /\ wft.pc = "read_line"
    /\ UNCHANGED connVars
    /\ IF stream.reset
       THEN Returned(BrowserAuthError("ReadFailed", <<>>))
       ELSE /\ HasLineEnd(stream.inbuf) \/ stream.eof
            /\ LET request_line == LineOf(stream.inbuf) IN
               IF ~from_utf8(request_line)
               THEN Returned(BrowserAuthError("ReadFailed", <<>>))
               ELSE LET token == extract_token_from_request(request_line) IN
                    IF token.kind = "Ok"
                    THEN /\ wft' = [wft EXCEPT !.pc = "write", !.request_line = request_line,
                                               !.token = token.value]
                         /\ UNCHANGED stream
                    ELSE /\ wft' = [wft EXCEPT !.pc = "accept"]
                         /\ stream' = [stream EXCEPT !.state = "closed"]
    /\ UNCHANGED <<listener, backlog, connects, accepted>>

\* a line the extraction rejects yields the empty token instead of the error
read_line_TokenOrDefault ==
    /\ wft.pc = "read_line"
    /\ UNCHANGED connVars
    /\ IF stream.reset
       THEN Returned(BrowserAuthError("ReadFailed", <<>>))
       ELSE /\ HasLineEnd(stream.inbuf) \/ stream.eof
            /\ LET request_line == LineOf(stream.inbuf) IN
               IF ~from_utf8(request_line)
               THEN Returned(BrowserAuthError("ReadFailed", <<>>))
               ELSE LET token == extract_token_from_request(request_line) IN
                    /\ wft' = [wft EXCEPT !.pc = "write", !.request_line = request_line,
                                          !.token = IF token.kind = "Ok" THEN token.value
                                                    ELSE <<>>]
                    /\ UNCHANGED stream
    /\ UNCHANGED <<listener, backlog, connects, accepted>>

\* reader.read_line(..) returns, and with a line in hand the token is
\* extracted at once: read_line blocks until a line end or the end of the
\* stream; it fails on a reset connection and on bytes that are not UTF-8
read_line ==
    /\ wft.pc = "read_line"
    /\ UNCHANGED connVars
    /\ IF stream.reset
       THEN Returned(BrowserAuthError("ReadFailed", <<>>))
       ELSE /\ HasLineEnd(stream.inbuf) \/ stream.eof
            /\ LET request_line == LineOf(stream.inbuf) IN
               IF ~from_utf8(request_line)
               THEN Returned(BrowserAuthError("ReadFailed", <<>>))
               ELSE LET token == extract_token_from_request(request_line) IN
                    IF token.kind = "Ok"
                    THEN /\ wft' = [wft EXCEPT !.pc = "write", !.request_line = request_line,
                                               !.token = token.value]
                         /\ UNCHANGED stream
                    ELSE /\ wft' = [wft EXCEPT !.pc = "returned",
                                               !.request_line = request_line,
                                               !.result = token]
                         /\ stream' = [stream EXCEPT !.state = "closed"]
    /\ UNCHANGED <<listener, backlog, connects, accepted>>

\* the token is returned and the page is never written
write_all_skipped ==
    /\ wft.pc = "write"
    /\ UNCHANGED connVars
    /\ wft' = [wft EXCEPT !.pc = "returned", !.result = OkToken(wft.token)]
    /\ stream' = [stream EXCEPT !.state = "closed"]
    /\ UNCHANGED <<listener, backlog, connects, accepted>>

\* the error of the write is returned with `?` instead of being dropped
write_all_ErrorReturned ==
    /\ wft.pc = "write"
    /\ UNCHANGED connVars
    /\ wft' = [wft EXCEPT !.pc = "returned",
                          !.wrote = IF stream.reset THEN "failed" ELSE "ok",
                          !.result = IF stream.reset
                                     THEN BrowserAuthError("ReadFailed", <<>>)
                                     ELSE OkToken(wft.token)]
    /\ stream' = [stream EXCEPT !.state = "closed",
                                !.delivered = IF ~stream.reset /\ ~stream.eof
                                              THEN Response ELSE NoResponse]
    /\ UNCHANGED <<listener, backlog, connects, accepted>>

\* let _ = stream.write_all(response); Ok(token): the write fails on a reset
\* connection, the page reaches a client that is still there, and the
\* token is returned either way
write_all ==
    /\ wft.pc = "write"
    /\ UNCHANGED connVars
    /\ wft' = [wft EXCEPT !.pc = "returned",
                          !.wrote = IF stream.reset THEN "failed" ELSE "ok",
                          !.result = OkToken(wft.token)]
    /\ stream' = [stream EXCEPT !.state = "closed",
                                !.delivered = IF ~stream.reset /\ ~stream.eof
                                              THEN Response ELSE NoResponse]
    /\ UNCHANGED <<listener, backlog, connects, accepted>>

(***************************************************************************)
(* browser.rs: generate_proof_key.  getrandom::fill fills 32 bytes (or     *)
(* fails, and .expect panics); the bytes are encoded with base64's         *)
(* general_purpose::STANDARD engine: the standard alphabet, three bytes to *)
(* four characters, the last group padded with '='.                        *)
(***************************************************************************)
ProofKeyBytes == 32

\* the engine that leaves the padding out
STANDARD_NO_PAD == [alphabet |-> "standard", encode_padding |-> FALSE]

STANDARD == [alphabet |-> "standard", encode_padding |-> TRUE]

\* the character of a 6-bit value: A-Z, a-z, 0-9, '+', '/'
Base64Char(v) ==
    IF v < 26 THEN 65 + v
    ELSE IF v < 52 THEN 97 + (v - 26)
    ELSE IF v < 62 THEN 48 + (v - 52)
    ELSE IF v = 62 THEN 43
    ELSE 47

RECURSIVE EncodeFrom(_, _, _, _)
EncodeFrom(engine, input, i, out) ==
    LET rest == Len(input) - i + 1
        pad == IF engine.encode_padding THEN <<61>> ELSE <<>>
    IN IF rest <= 0 THEN out
       ELSE IF rest >= 3
       THEN EncodeFrom(engine, input, i + 3,
                out \o << Base64Char(input[i] \div 4),
                          Base64Char((input[i] % 4) * 16 + input[i + 1] \div 16),
                          Base64Char((input[i + 1] % 16) * 4 + input[i + 2] \div 64),
                          Base64Char(input[i + 2] % 64) >>)
       ELSE IF rest = 2
       THEN out \o << Base64Char(input[i] \div 4),
                      Base64Char((input[i] % 4) * 16 + input[i + 1] \div 16),
                      Base64Char((input[i + 1] % 16) * 4) >> \o pad
       ELSE out \o << Base64Char(input[i] \div 4),
                      Base64Char((input[i] % 4) * 16) >> \o pad \o pad

\* Engine::encode
encode(engine, input) == EncodeFrom(engine, input, 1, <<>>)

\* what getrandom::fill may leave in the array: the bytes seed, seed + step,
\* seed + 2 * step, ... (mod 256)
RandomSeeds == {0, 77, 255}

RandomSteps == {0, 1, 37}

Randomness ==
    {[i \in 1..ProofKeyBytes |-> (seed + (i - 1) * step) % 256] :
        seed \in RandomSeeds, step \in RandomSteps}

(***************************************************************************)
(* The browser SSO flow: the state it is in, the states it has been in,    *)
(* and what it holds: the proof key (and the bytes it encodes), the port   *)
(* recorded from the listener, the two request payloads of requests.rs,    *)
(* the URL handed to the browser and the token received.                   *)
(***************************************************************************)
NoAuthenticatorRequest == [authenticator |-> "", browser_mode_redirect_port |-> <<>>]

NoBrowserRequest == [authenticator |-> "", token |-> <<>>, proof_key |-> <<>>]

IdleSso ==
    [state |-> "Idle", visited |-> <<"Idle">>, reason |-> "none", panicked |-> FALSE,
     randomness |-> <<>>, proof_key |-> <<>>, port |-> 0,
     authenticator_request |-> NoAuthenticatorRequest, sso_url |-> "",
     browser |-> "none", token |-> <<>>, login_request |-> NoBrowserRequest]

Moved(flow, state) == [flow EXCEPT !.state = state, !.visited = Append(@, state)]

Failed(flow, reason) ==
    [flow EXCEPT !.state = "Failed", !.visited = Append(@, "Failed"), !.reason = reason]

\* u16::to_string: the decimal digits of the port
RECURSIVE to_string(_)
to_string(n) == IF n < 10 THEN <<48 + n>> ELSE Append(to_string(n \div 10), 48 + (n % 10))

\* AuthenticatorRequestData, the payload of the SSO-initiation request
AuthenticatorRequestData(port) ==
    [authenticator |-> "EXTERNALBROWSER", browser_mode_redirect_port |-> to_string(port)]

\* BrowserRequestData, the payload of the login-completion request
BrowserRequestData(token, proof_key) ==
    [authenticator |-> "EXTERNALBROWSER", token |-> token, proof_key |-> proof_key]

\* flow start: the proof key of this attempt is generated
\*   outcome : "ok", or "getrandom_failed" (the .expect panics)
generate_proof_key(outcome, randomness) ==
    /\ sso.state = "Idle" /\ sso.proof_key = <<>> /\ ~sso.panicked
    /\ sso' = IF outcome = "getrandom_failed"
              THEN [sso EXCEPT !.panicked = TRUE]
              ELSE [sso EXCEPT !.randomness = randomness,
                               !.proof_key = encode(STANDARD, randomness)]
    /\ UNCHANGED connVars
    /\ UNCHANGED browserVars

\* Idle -> ListenerBound: bind the local listener and record its port
BindListener(outcome, port) ==
    /\ sso.state = "Idle" /\ sso.proof_key # <<>>
    /\ create_local_listener(outcome, port)
    /\ sso' = IF listener'.result = "Ok"
              THEN Moved([sso EXCEPT !.port = listener'.port], "ListenerBound")
              ELSE Failed(sso, listener'.result)

\* ListenerBound -> UrlRequested: the SSO-initiation request goes out with
\* the recorded port; its response yields the SSO URL, or the request fails
RequestSsoUrl(outcome) ==
    /\ sso.state = "ListenerBound"
    /\ sso' = IF outcome = "ok"
              THEN Moved([sso EXCEPT !.authenticator_request = AuthenticatorRequestData(sso.port),
                                     !.sso_url = "sso_url"], "UrlRequested")
              ELSE Failed([sso EXCEPT !.authenticator_request = AuthenticatorRequestData(sso.port)],
                          "RequestFailed")
    /\ UNCHANGED connVars
    /\ UNCHANGED browserVars

\* browser.rs: open_browser, open::that(url) mapped to BrowserOpenFailed
open_browser(url, outcome) ==
    IF outcome = "ok"
    THEN [kind |-> "Ok", url |-> url]
    ELSE [kind |-> "BrowserOpenFailed", url |-> url]

\* UrlRequested -> BrowserOpened: the URL is handed to the browser
LaunchBrowser(outcome) ==
    /\ sso.state = "UrlRequested"
    /\ LET opened == open_browser(sso.sso_url, outcome) IN
        sso' = IF opened.kind = "Ok"
               THEN Moved([sso EXCEPT !.browser = "opened"], "BrowserOpened")
               ELSE Failed([sso EXCEPT !.browser = "failed"], opened.kind)
    /\ UNCHANGED connVars
    /\ UNCHANGED browserVars

\* BrowserOpened -> AwaitingCallback: the flow calls wait_for_token
AwaitCallback ==
    /\ sso.state = "BrowserOpened"
    /\ wait_for_token
    /\ sso' = Moved(sso, "AwaitingCallback")

\* AwaitingCallback -> TokenReceived: wait_for_token has returned
ReceiveToken ==
    /\ sso.state = "AwaitingCallback"
    /\ wft.pc = "returned"
    /\ sso' = IF wft.result.kind = "Ok"
              THEN Moved([sso EXCEPT !.token = wft.result.value], "TokenReceived")
              ELSE Failed(sso, wft.result.kind)
    /\ UNCHANGED connVars
    /\ UNCHANGED browserVars

\* TokenReceived -> LoginSubmitted: the login-completion payload is put
\* together and submitted through request() with intent LoginRequest
SubmitLogin(c, url_ok, body_ok) ==
    /\ sso.state = "TokenReceived"
    /\ request(c, "LoginRequest", url_ok, "none", body_ok)
    /\ sso' = Moved([sso EXCEPT !.login_request = BrowserRequestData(sso.token, sso.proof_key)],
                    "LoginSubmitted")

\* LoginSubmitted -> Authenticated: the session response has deserialized
CompleteLogin(c) ==
    /\ sso.state = "LoginSubmitted"
    /\ calls[c].pc = "done"
    /\ sso' = IF calls[c].result = Ok
              THEN Moved(sso, "Authenticated")
              ELSE Failed(sso, calls[c].result.variant)
    /\ UNCHANGED connVars
    /\ UNCHANGED browserVars

(***************************************************************************)
(* Specification: one caller awaiting its calls one after the other; a     *)
(* panic in a call unwinds the caller, which makes no further call.        *)
(***************************************************************************)
Init ==
    /\ calls = [c \in Calls |-> IdleCall]
    /\ nextUuid = 1
    /\ listener = NoListener
    /\ backlog = 0
    /\ connects = 0
    /\ accepted = 0
    /\ stream = NoStream
    /\ wft = IdleWait
    /\ sso = IdleSso

NoOtherInFlight(c) == \A d \in Calls \ {c} : calls[d].pc = "idle"

Next ==
    \/ \E c \in Calls, q \in QueryType, url_ok \in BOOLEAN,
          auth \in {"none", "valid", "invalid"}, body_ok \in BOOLEAN :
            NoOtherInFlight(c) /\ request(c, q, url_ok, auth, body_ok) /\ UNCHANGED sso
    \/ \E c \in Calls, url_ok \in BOOLEAN,
          header \in {"valid", "invalid_name", "invalid_value"} :
            NoOtherInFlight(c) /\ get_chunk(c, url_ok, header) /\ UNCHANGED sso
    \/ \E c \in Calls, o \in Outcomes : Attempt(c, o) /\ UNCHANGED sso
    \/ \E c \in Calls : Backoff(c) /\ UNCHANGED sso
    \/ \E c \in Calls, body \in BodyOutcomes : request_json(c, body) /\ UNCHANGED sso
    \/ \E c \in Calls, body \in BodyOutcomes : get_chunk_bytes(c, body) /\ UNCHANGED sso
    \/ \E c \in Calls : Return(c) /\ UNCHANGED sso

Spec == Init /\ [][Next]_vars

(***************************************************************************)
(* Specification of the callback listener: one listener, its clients, and  *)
(* one call of wait_for_token.                                             *)
(***************************************************************************)
NextBrowser ==
    \/ \E outcome \in {"ok", "bind_failed", "local_addr_failed"}, port \in Ports :
          create_local_listener(outcome, port) /\ UNCHANGED sso
    \/ ClientConnect /\ UNCHANGED sso
    \/ ClientSend(Requests) /\ UNCHANGED sso
    \/ ClientClose /\ UNCHANGED sso
    \/ ClientReset /\ UNCHANGED sso
    \/ wait_for_token /\ UNCHANGED sso
    \/ \E io_ok \in BOOLEAN : accept(io_ok) /\ UNCHANGED sso
    \/ read_line /\ UNCHANGED sso
    \/ write_all /\ UNCHANGED sso

SpecBrowser == Init /\ [][NextBrowser]_vars

(***************************************************************************)
(* Specification of concurrent callers: every task makes one call of       *)
(* request() on the shared Connection (request takes &self, and the        *)
(* Connection holds nothing but the client), and the steps of the calls    *)
(* interleave freely.  Attempts come back with a 200 or a 500.             *)
(***************************************************************************)
ConcIntents == {"JsonQuery"}

ConcOutcomes == [kind : {"response"}, status : {200, 500}]

NextConc ==
    \/ \E c \in Calls, q \in ConcIntents :
          request(c, q, TRUE, "none", TRUE) /\ UNCHANGED sso
    \/ \E c \in Calls, o \in ConcOutcomes :
          nextUuid <= MaxConcAttempts /\ Attempt(c, o) /\ UNCHANGED sso
    \/ \E c \in Calls : Backoff(c) /\ UNCHANGED sso
    \/ \E c \in Calls, body \in {"matches", "mismatch"} :
          request_json(c, body) /\ UNCHANGED sso

SpecConc == Init /\ [][NextConc]_vars

(***************************************************************************)
(* Specification of one attempt of the browser SSO flow: the flow, its     *)
(* listener and the listener's clients, and the login call on the          *)
(* Connection.                                                             *)
(***************************************************************************)
\* `GET /?token=xyz HTTP/1.1\r\n\r\n`, the same without any line end,
\* `GET /?token=%20xyz HTTP/1.1\r\n`, `GET /?token=%c3 HTTP/1.1\r\n\r\n`,
\* `GET /callback HTTP/1.1\r\n\r\n` and `GET\r\n\r\n`
SsoRequests ==
    {<<71, 69, 84, 32>> \o TokenPrefix \o <<120, 121, 122>>
        \o <<32, 72, 84, 84, 80, 47, 49, 46, 49>> \o e : e \in Terminators}
    \cup {<<71, 69, 84, 32>> \o TokenPrefix \o <<37, 50, 48, 120, 121, 122>>
            \o <<32, 72, 84, 84, 80, 47, 49, 46, 49, 13, 10>>,
          <<71, 69, 84, 32>> \o TokenPrefix \o <<37, 99, 51>>
            \o <<32, 72, 84, 84, 80, 47, 49, 46, 49, 13, 10, 13, 10>>,
          <<71, 69, 84, 32, 47, 99, 97, 108, 108, 98, 97, 99, 107>>
            \o <<32, 72, 84, 84, 80, 47, 49, 46, 49, 13, 10, 13, 10>>,
          <<71, 69, 84, 13, 10, 13, 10>>}

SsoOutcomes ==
    [kind : {"response"}, status : {200, 500}] \cup [kind : {"connect_error"}, status : {0}]

\* the task that runs the flow makes its login call as call 1
SsoCall == 1

NextSso ==
    \/ \E outcome \in {"ok", "getrandom_failed"}, randomness \in Randomness :
          generate_proof_key(outcome, randomness)
    \/ \E outcome \in {"ok", "bind_failed", "local_addr_failed"}, port \in Ports :
          BindListener(outcome, port)
    \/ \E outcome \in {"ok", "failed"} : RequestSsoUrl(outcome)
    \/ \E outcome \in {"ok", "failed"} : LaunchBrowser(outcome)
    \/ AwaitCallback
    \/ ClientConnect /\ UNCHANGED sso
    \/ ClientSend(SsoRequests) /\ UNCHANGED sso
    \/ ClientClose /\ UNCHANGED sso
    \/ ClientReset /\ UNCHANGED sso
    \/ \E io_ok \in BOOLEAN : accept(io_ok) /\ UNCHANGED sso
    \/ read_line /\ UNCHANGED sso
    \/ write_all /\ UNCHANGED sso
    \/ ReceiveToken
    \/ \E url_ok \in BOOLEAN, body_ok \in BOOLEAN : SubmitLogin(SsoCall, url_ok, body_ok)
    \/ \E o \in SsoOutcomes : Attempt(SsoCall, o) /\ UNCHANGED sso
    \/ Backoff(SsoCall) /\ UNCHANGED sso
    \/ \E body \in {"matches", "mismatch"} : request_json(SsoCall, body) /\ UNCHANGED sso
    \/ CompleteLogin(SsoCall)

SpecSso == Init /\ [][NextSso]_vars

(***************************************************************************)
(* Properties of the request layer, checked under Spec                     *)
(***************************************************************************)
\* the client's send() has handed its final outcome back to the call
SendConcluded(c) == calls[c].pc \in {"body", "done"} /\ Len(calls[c].outcomes) >= 1

\* a transient failure in the words of the specification: a network error or a 5xx
TransientFailure(o) ==
    \/ o.kind = "connect_error"
    \/ o.kind = "response" /\ o.status >= 500 /\ o.status <= 599

AllTransientFailures(c) ==
    \A i \in 1..Len(calls[c].outcomes) : TransientFailure(calls[c].outcomes[i])

\* C1: a call of request() whose every attempt came back with a transient
\* failure makes exactly MaxRetries + 1 physical attempts, and the
\* requestIds those attempts carried are pairwise distinct.
C1_AttemptsAndDistinctIds ==
    \A c \in Calls :
        (calls[c].op = "request" /\ SendConcluded(c) /\ AllTransientFailures(c))
        => /\ Len(calls[c].ids) = MaxRetries + 1
           /\ \A i, j \in 1..Len(calls[c].ids) : i # j => calls[c].ids[i] # calls[c].ids[j]

C1_Witness ==
    \E c \in Calls :
        /\ calls[c].op = "request" /\ SendConcluded(c) /\ AllTransientFailures(c)
        /\ Len(calls[c].ids) = 4
        /\ calls[c].outcomes[1].kind = "response" /\ calls[c].outcomes[4].kind = "connect_error"

\* C2 as stated: a call of request() whose first attempt received any
\* 4xx response is never retried: it makes exactly one physical attempt.
C2_Any4xxSingleAttempt ==
    \A c \in Calls :
        (/\ calls[c].op = "request" /\ Len(calls[c].outcomes) >= 1
         /\ calls[c].outcomes[1].kind = "response"
         /\ calls[c].outcomes[1].status >= 400 /\ calls[c].outcomes[1].status <= 499)
        => Len(calls[c].ids) = 1

\* C2 as amended: a call of request() whose first attempt received a 4xx
\* response other than 408 and 429, or a 2xx response (whose body may then
\* fail to deserialize), makes exactly one physical attempt; the failed
\* deserialization ends the call and no retry follows it.
C2_FatalFirstAttemptSingleAttempt ==
    \A c \in Calls :
        (/\ calls[c].op = "request" /\ Len(calls[c].outcomes) >= 1
         /\ calls[c].outcomes[1].kind = "response"
         /\ \/ /\ calls[c].outcomes[1].status >= 400 /\ calls[c].outcomes[1].status <= 499
               /\ calls[c].outcomes[1].status \notin {408, 429}
            \/ calls[c].outcomes[1].status >= 200 /\ calls[c].outcomes[1].status <= 299)
        => /\ Len(calls[c].ids) = 1
           /\ calls[c].pc \in {"body", "done"}
           /\ calls[c].result.cause = "deserialization" => calls[c].pc = "done"

C2_Witness ==
    \E c \in Calls :
        /\ calls[c].op = "request" /\ calls[c].pc = "done"
        /\ Len(calls[c].ids) = 1
        /\ calls[c].outcomes[1].kind = "response" /\ calls[c].outcomes[1].status = 404
        /\ calls[c].result.cause = "deserialization"

\* the attempt budget is used up and every attempt failed transiently
BudgetExhausted(c) ==
    /\ calls[c].op = "request" /\ calls[c].pc = "done"
    /\ Len(calls[c].outcomes) = MaxRetries + 1
    /\ AllTransientFailures(c)

\* C3 as stated: when every attempt of a call of request() failed
\* transiently and the budget is used up, request() returns an error.
C3_ExhaustedBudgetIsError ==
    \A c \in Calls : BudgetExhausted(c) => calls[c].result.kind = "Err"

\* C3 as amended: when every attempt failed transiently and the budget is
\* used up, request() returns RequestMiddlewareError if the last attempt
\* was a network error; if it was a 5xx response, that response is read like
\* any other and request() returns Ok when its body deserializes and
\* RequestError when it does not.
C3_ExhaustedBudgetResult ==
    \A c \in Calls :
        BudgetExhausted(c)
        => IF calls[c].outcomes[MaxRetries + 1].kind = "connect_error"
           THEN calls[c].result = Err("RequestMiddlewareError", "transport")
           ELSE calls[c].result \in {Ok, Err("RequestError", "deserialization"),
                                     Err("RequestError", "transport")}

C3_Witness ==
    \E c \in Calls :
        /\ BudgetExhausted(c)
        /\ \A i \in 1..4 : calls[c].outcomes[i] = [kind |-> "response", status |-> 500]
        /\ calls[c].result = Ok

\* C8: every intent resolves to a (path, accept-mime) pair, a call of
\* request() carries the pair of its intent, and no other intent resolves
\* to the pair the call carries.
C8_IntentMappingInjective ==
    /\ \A q \in QueryType : query_context(q).path # "" /\ query_context(q).accept_mime # ""
    /\ \A c \in Calls :
        calls[c].op = "request"
        => /\ calls[c].intent \in QueryType
           /\ query_context(calls[c].intent) =
                [path |-> calls[c].path, accept_mime |-> calls[c].accept_mime]
           /\ \A q \in QueryType :
                query_context(q) = [path |-> calls[c].path, accept_mime |-> calls[c].accept_mime]
                => q = calls[c].intent

C8_Witness ==
    \E c \in Calls :
        /\ calls[c].op = "request" /\ calls[c].pc = "sending"
        /\ calls[c].intent = "JsonQuery"
        /\ calls[c].path = "queries/v1/query-request"
        /\ calls[c].accept_mime = "application/json"

\* the ConnectionError variants a transport failure comes back as
TransportErrorVariants ==
    {json("read_error").variant, bytes("read_error").variant, "RequestMiddlewareError"}

\* C9: a body that does not have the shape of the result type makes
\* request() return an error of a variant that no transport failure is
\* returned as.
C9_DeserializationVariantDistinct ==
    \A c \in Calls :
        (calls[c].pc = "done" /\ calls[c].result.cause = "deserialization")
        => calls[c].result.variant \notin TransportErrorVariants

\* C10: every failure inside request() and get_chunk() reaches the caller
\* as an error result, an invalid header passed to get_chunk() included:
\* no call ends in a panic.
C10_FailuresAreTypedErrors ==
    \A c \in Calls : calls[c].pc # "panicked" /\ calls[c].result.kind # "panic"

(***************************************************************************)
(* Properties of concurrent calls, checked under SpecConc                  *)
(***************************************************************************)
\* what a call's own responses make of it: how many attempts it has
\* made, and whether it is waiting, reading a body or done
OwnResponsesDecide(c) ==
    LET r == calls[c]
        n == Len(r.outcomes)
    IN /\ Len(r.ids) = n
       /\ n <= MaxRetries + 1
       /\ \A i \in 1..(n - 1) : TransientFailure(r.outcomes[i])
       /\ r.pc = "backoff" => n >= 1 /\ n <= MaxRetries /\ TransientFailure(r.outcomes[n])
       /\ r.pc = "sending" => n <= MaxRetries /\ (n >= 1 => TransientFailure(r.outcomes[n]))
       /\ r.pc \in {"body", "done"}
          => /\ n >= 1
             /\ ~TransientFailure(r.outcomes[n]) \/ n = MaxRetries + 1
       /\ r.pc = "done" => r.result \in {Ok, Err("RequestError", "deserialization")}

\* C11: on one shared Connection, a call that is about to make an attempt
\* can make it whatever the other calls are doing, one that waits between
\* retries included; a step of one call changes no other call's record;
\* and each call's attempt count and position follow from the responses to
\* its own attempts alone.
C11_CallsDoNotBlockEachOther ==
    \A c \in Calls :
        /\ OwnResponsesDecide(c)
        /\ (calls[c].pc = "sending" /\ nextUuid <= MaxUuid)
           => ENABLED Attempt(c, [kind |-> "response", status |-> 200])
        /\ calls[c].pc = "backoff" => ENABLED Backoff(c)
        /\ calls[c].pc = "body" => ENABLED request_json(c, "matches")

\* one call waits between its retries; another, whose first attempt went
\* out after the first call's, has completed with Ok after one attempt
C11_Witness ==
    \E c, d \in Calls :
        /\ c # d
        /\ calls[d].pc = "backoff" /\ Len(calls[d].ids) = 2
        /\ calls[c].pc = "done" /\ calls[c].result = Ok /\ Len(calls[c].ids) = 1
        /\ calls[c].ids[1] > calls[d].ids[2]

\* every attempt made so far, of whatever call, carries an id the generator
\* has issued, and no two attempts carry the same one
EveryAttemptFreshlyStamped ==
    /\ \A c \in Calls :
          /\ Len(calls[c].ids) = Len(calls[c].outcomes)
          /\ \A i \in 1..Len(calls[c].ids) : calls[c].ids[i] \in 1..(nextUuid - 1)
    /\ \A c, d \in Calls :
          \A i \in 1..Len(calls[c].ids), j \in 1..Len(calls[d].ids) :
              (c # d \/ i # j) => calls[c].ids[i] # calls[d].ids[j]

\* the layer the client hands a request to first
FirstLayerToSeeRequest == MiddlewareChain[1]

\* C14 as stated: the layer that stamps the correlation id runs before the
\* retry layer observes the request, and every attempt, retried ones
\* included, is stamped with a newly generated id.
C14_StampedBeforeRetryObserves ==
    (\E c \in Calls : Len(calls[c].ids) >= 1)
    => /\ FirstLayerToSeeRequest = "Uuid"
       /\ EveryAttemptFreshlyStamped

\* C14 as amended: the retry layer is the first to receive the request and
\* the stamping layer runs inside it, once for each physical attempt the
\* retry layer makes and before that attempt goes out; every attempt,
\* retried ones included, is stamped with a newly generated id.
C14_StampedInsideRetryPerAttempt ==
    (\E c \in Calls : Len(calls[c].ids) >= 1)
    => /\ FirstLayerToSeeRequest = "RetryTransient"
       /\ MiddlewareChain[2] = "Uuid"
       /\ EveryAttemptFreshlyStamped

\* a call on its third attempt's outcome, its attempts interleaved with
\* another call's
C14_Witness ==
    \E c, d \in Calls :
        /\ c # d
        /\ Len(calls[c].ids) = 3 /\ Len(calls[d].ids) = 2
        /\ calls[c].ids[1] < calls[d].ids[1] /\ calls[d].ids[1] < calls[c].ids[2]
        /\ calls[c].ids[3] < calls[d].ids[2]

(***************************************************************************)
(* Properties of the callback listener, checked under SpecBrowser          *)
(***************************************************************************)
\* "/?token=", "GET ", " HTTP/1.1" and "xyz" as the specification writes them
CallbackPrefix == <<47, 63, 116, 111, 107, 101, 110, 61>>

GetSp == <<71, 69, 84, 32>>

Http11 == <<32, 72, 84, 84, 80, 47, 49, 46, 49>>

Xyz == <<120, 121, 122>>

HasPrefix(s, p) == Len(s) >= Len(p) /\ \A i \in 1..Len(p) : s[i] = p[i]

HasSuffix(s, p) == Len(s) >= Len(p) /\ \A i \in 1..Len(p) : s[Len(s) - Len(p) + i] = p[i]

NoWhitespace(s) == \A i \in 1..Len(s) : s[i] \notin {9, 10, 11, 12, 13, 32}

\* a request line has been read and the extraction has been applied to it
Extracted ==
    \/ wft.pc = "write"
    \/ wft.pc = "returned" /\ wft.result.kind \notin {"AcceptFailed", "ReadFailed"}

\* what the extraction yielded
ExtractionOutcome == IF wft.pc = "write" THEN OkToken(wft.token) ELSE wft.result

\* the words of the request line that was read
LineParts == split_whitespace(wft.request_line)

\* C4: when the line read is `GET /?token=<T> HTTP/1.1` (with or without
\* its CR LF), T holds no whitespace and the percent-decoding of T is valid
\* UTF-8, the extraction yields Ok with exactly the percent-decoding of T.
C4_ExtractionYieldsDecodedToken ==
    Extracted =>
        \A e \in {<<>>, <<13, 10>>} :
            LET line == wft.request_line
                head == GetSp \o CallbackPrefix
                tail == Http11 \o e
                T == SubSeq(line, Len(head) + 1, Len(line) - Len(tail))
            IN (/\ Len(line) >= Len(head) + Len(tail)
                /\ HasPrefix(line, head) /\ HasSuffix(line, tail)
                /\ NoWhitespace(T)
                /\ from_utf8(decode_binary(T, 1, <<>>)))
               => ExtractionOutcome = OkToken(decode_binary(T, 1, <<>>))

\* `GET /?token=%20xyz HTTP/1.1` was read and yielded " xyz"
C4_Witness ==
    /\ wft.pc = "returned"
    /\ wft.request_line = GetSp \o CallbackPrefix \o <<37, 50, 48>> \o Xyz \o Http11 \o <<13, 10>>
    /\ wft.result = OkToken(<<32>> \o Xyz)

\* C5: when the line read has at least two words and the second one, the
\* path, does not begin with `/?token=`, the extraction fails with
\* MissingToken carrying that path unchanged.
C5_MissingTokenCarriesPath ==
    Extracted =>
        ((Len(LineParts) >= 2 /\ ~HasPrefix(LineParts[2], CallbackPrefix))
         => /\ wft.pc = "returned"
            /\ wft.result = BrowserAuthError("MissingToken", LineParts[2]))

\* `GET /?tokenxyz HTTP/1.1` was read and rejected with its path
C5_Witness ==
    /\ wft.pc = "returned"
    /\ wft.request_line = GetSp \o <<47, 63, 116, 111, 107, 101, 110>> \o Xyz \o Http11 \o <<13, 10>>
    /\ wft.result = BrowserAuthError("MissingToken", <<47, 63, 116, 111, 107, 101, 110>> \o Xyz)

\* the client sent `GET /?token=xyz HTTP/1.1\r\n\r\n` and is still there
XyzExchange ==
    /\ stream.inbuf = GetSp \o CallbackPrefix \o Xyz \o Http11 \o <<13, 10, 13, 10>>
    /\ ~stream.eof /\ ~stream.reset

\* C6: once wait_for_token has returned from a connection whose client sent
\* `GET /?token=xyz HTTP/1.1` and stays connected, it has accepted exactly
\* one connection, its result is the token "xyz" and the client has the
\* 200 page; the page is on no connection before the token is extracted,
\* and it is there when wait_for_token has returned.
C6_EndToEnd ==
    /\ (wft.pc = "returned" /\ XyzExchange)
       => /\ wft.result = OkToken(Xyz)
          /\ accepted = 1
          /\ stream.delivered = Response
          /\ wft.wrote = "ok"
    /\ stream.delivered # NoResponse
       => wft.pc = "returned" /\ wft.result = OkToken(wft.token)
    /\ wft.pc \in {"idle", "accept", "read_line", "write"}
       => stream.delivered = NoResponse /\ wft.wrote = "none"
    /\ accepted <= 1

C6_Witness ==
    /\ wft.pc = "returned" /\ XyzExchange
    /\ listener.state = "bound" /\ listener.port \in Ports
    /\ accepted = 1
    /\ wft.result = OkToken(Xyz)
    /\ stream.delivered = Response

\* C7 as stated: a line whose method is not GET, or whose path does not
\* begin with `/?token=`, never yields a token.
C7_OnlyGetTokenRecognized ==
    Extracted =>
        ((\/ Len(LineParts) = 0
          \/ Len(LineParts) >= 1 /\ LineParts[1] # <<71, 69, 84>>
          \/ Len(LineParts) >= 2 /\ ~HasPrefix(LineParts[2], CallbackPrefix))
         => ExtractionOutcome.kind # "Ok")

\* C7 as amended: a line that has no path, or whose path does not begin
\* with `/?token=`, is rejected (InvalidRequest, MissingToken) and never
\* yields a token, and no page is written for it; the method is not looked
\* at.
C7_UnprefixedPathRejected ==
    Extracted =>
        ((Len(LineParts) < 2 \/ ~HasPrefix(LineParts[2], CallbackPrefix))
         => /\ wft.pc = "returned"
            /\ wft.result.kind \in {"InvalidRequest", "MissingToken"}
            /\ wft.token = <<>>
            /\ wft.wrote = "none"
            /\ stream.delivered = NoResponse)

\* `POST /callback HTTP/1.1` was read and rejected
C7_Witness ==
    /\ wft.pc = "returned"
    /\ wft.request_line = <<80, 79, 83, 84, 32>> \o <<47, 99, 97, 108, 108, 98, 97, 99, 107>>
                          \o Http11 \o <<13, 10>>
    /\ wft.result.kind = "MissingToken"
    /\ stream.delivered = NoResponse

\* C16: the extraction yields exactly one of InvalidRequest, MissingToken,
\* DecodeFailed and Ok, decided in this order: InvalidRequest when the line
\* has fewer than two words (the empty line of a peer that closed without
\* sending included); otherwise MissingToken when the path does not begin
\* with `/?token=`; otherwise DecodeFailed when the percent-decoding of
\* what follows the prefix fails; otherwise Ok.
C16_OutcomeDecidedInOrder ==
    Extracted =>
        /\ ExtractionOutcome.kind =
              IF Len(LineParts) < 2 THEN "InvalidRequest"
              ELSE IF ~HasPrefix(LineParts[2], CallbackPrefix) THEN "MissingToken"
              ELSE IF ~from_utf8(decode_binary(SubSeq(LineParts[2], 9, Len(LineParts[2])),
                                               1, <<>>))
                   THEN "DecodeFailed"
              ELSE "Ok"
        /\ wft.pc = "returned" => wft.result = ExtractionOutcome
        /\ (wft.request_line = <<>>) => ExtractionOutcome.kind = "InvalidRequest"

\* `GET /?token=%c3 HTTP/1.1` passed the first two tests and failed to decode
C16_Witness ==
    /\ wft.pc = "returned"
    /\ wft.request_line = GetSp \o CallbackPrefix \o <<37, 99, 51>> \o Http11 \o <<13, 10>>
    /\ wft.result.kind = "DecodeFailed"

\* the peer closed without sending: the empty line is an InvalidRequest
C16_EmptyLineWitness ==
    /\ wft.pc = "returned"
    /\ stream.inbuf = <<>> /\ stream.eof
    /\ wft.request_line = <<>>
    /\ wft.result.kind = "InvalidRequest"

\* the token the line read carries behind `/?token=`, percent-decoded
TokenOfLine ==
    decode_binary(SubSeq(LineParts[2], Len(CallbackPrefix) + 1, Len(LineParts[2])), 1, <<>>)

\* C17: once the token has been extracted from the line read, and the
\* confirmation page has been written or has failed to be written,
\* wait_for_token has returned Ok with exactly that token: a failed write
\* does not make the result an error and does not change the token.
C17_WriteFailureKeepsToken ==
    /\ wft.pc = "write"
       => Len(LineParts) >= 2 /\ wft.token = TokenOfLine /\ wft.wrote = "none"
    /\ wft.wrote \in {"ok", "failed"}
       => /\ wft.pc = "returned"
          /\ Len(LineParts) >= 2
          /\ wft.result = OkToken(TokenOfLine)
    /\ (wft.pc = "returned" /\ wft.result.kind = "Ok") => wft.wrote \in {"ok", "failed"}

\* the connection was reset after `GET /?token=xyz HTTP/1.1` had been read:
\* the write failed, the page reached nobody, and "xyz" was returned
C17_Witness ==
    /\ wft.pc = "returned"
    /\ wft.wrote = "failed" /\ stream.reset
    /\ stream.delivered = NoResponse
    /\ wft.request_line = GetSp \o CallbackPrefix \o Xyz \o Http11 \o <<13, 10>>
    /\ wft.result = OkToken(Xyz)

\* the line read is one the extraction rejects
LineRejected ==
    /\ wft.pc = "returned"
    /\ wft.result.kind \in {"InvalidRequest", "MissingToken", "DecodeFailed"}

\* C19: one call of wait_for_token accepts at most one connection, and
\* exactly one when it got as far as reading a line; when the line of that
\* connection is malformed, lacks the token prefix or fails to decode, the
\* call has returned that error with nothing written to the connection, the
\* connection is closed, and the call accepts no second connection, not
\* even one that is already waiting.
C19_OneConnectionWhateverTheOutcome ==
    /\ accepted <= 1
    /\ wft.pc \in {"read_line", "write"} => accepted = 1
    /\ (wft.pc = "returned" /\ wft.result.kind # "AcceptFailed") => accepted = 1
    /\ LineRejected
       => /\ wft.wrote = "none"
          /\ stream.delivered = NoResponse
          /\ stream.state = "closed"
    /\ wft.pc = "returned"
       => /\ ~ENABLED accept(TRUE)
          /\ ~ENABLED read_line
          /\ ~ENABLED write_all

\* `GET /callback HTTP/1.1` was rejected while a second connection waits in
\* the backlog, where it stays
C19_Witness ==
    /\ LineRejected
    /\ wft.result.kind = "MissingToken"
    /\ wft.request_line = GetSp \o <<47, 99, 97, 108, 108, 98, 97, 99, 107>> \o Http11 \o <<13, 10>>
    /\ accepted = 1 /\ connects = 2 /\ backlog = 1
    /\ stream.delivered = NoResponse

(***************************************************************************)
(* Properties of the browser SSO flow, checked under SpecSso               *)
(***************************************************************************)
\* the states of the flow as the specification orders them
SsoStates ==
    <<"Idle", "ListenerBound", "UrlRequested", "BrowserOpened", "AwaitingCallback",
      "TokenReceived", "LoginSubmitted", "Authenticated">>

HasVisited(state) == \E i \in 1..Len(sso.visited) : sso.visited[i] = state

\* the number a string of decimal digits stands for
RECURSIVE DecimalValue(_)
DecimalValue(digits) ==
    IF digits = <<>> THEN 0
    ELSE 10 * DecimalValue(SubSeq(digits, 1, Len(digits) - 1)) + (digits[Len(digits)] - 48)

\* C12: the states a run of the SSO flow has visited are the first states
\* of Idle, ListenerBound, UrlRequested, BrowserOpened, AwaitingCallback,
\* TokenReceived, LoginSubmitted, Authenticated, in that order and with none
\* left out (a failing run ends them with Failed); when the SSO-initiation
\* request has been issued the listener is bound, its port is recorded and
\* the request carries that port; the browser is launched only with the
\* listener bound.
C12_StatesInOrder ==
    /\ LET n == Len(sso.visited) IN
        /\ n >= 1 /\ sso.visited[n] = sso.state
        /\ \A i \in 1..n :
              \/ i <= Len(SsoStates) /\ sso.visited[i] = SsoStates[i]
              \/ i = n /\ i > 1 /\ sso.visited[i] = "Failed"
    /\ sso.authenticator_request.authenticator # ""
       => /\ listener.state = "bound"
          /\ listener.port \in 1..65535
          /\ sso.port = listener.port
          /\ HasVisited("ListenerBound")
          /\ DecimalValue(sso.authenticator_request.browser_mode_redirect_port) = listener.port
    /\ sso.browser # "none"
       => listener.state = "bound" /\ HasVisited("ListenerBound") /\ HasVisited("UrlRequested")

\* a run that went all the way: every state visited, the request carried
\* the port 49153 the listener was bound to
C12_Witness ==
    /\ sso.state = "Authenticated"
    /\ sso.visited = SsoStates
    /\ listener.port = 49153
    /\ sso.authenticator_request.browser_mode_redirect_port = <<52, 57, 49, 53, 51>>
    /\ sso.browser = "opened"

\* the 6-bit value of a base64 character (RFC 4648, table 1), -1 for any
\* other byte
Base64Value(ch) ==
    IF ch >= 65 /\ ch <= 90 THEN ch - 65
    ELSE IF ch >= 97 /\ ch <= 122 THEN ch - 71
    ELSE IF ch >= 48 /\ ch <= 57 THEN ch + 4
    ELSE IF ch = 43 THEN 62
    ELSE IF ch = 47 THEN 63
    ELSE -1

\* the bytes a padded base64 text of whole groups of four stands for
RECURSIVE Base64Decode(_)
Base64Decode(text) ==
    IF Len(text) < 4 THEN <<>>
    ELSE LET v1 == Base64Value(text[1])
             v2 == Base64Value(text[2])
             v3 == IF text[3] = 61 THEN 0 ELSE Base64Value(text[3])
             v4 == IF text[4] = 61 THEN 0 ELSE Base64Value(text[4])
             b1 == v1 * 4 + v2 \div 16
             b2 == (v2 % 16) * 16 + v3 \div 4
             b3 == (v3 % 4) * 64 + v4
             group == IF text[3] = 61 THEN <<b1>>
                      ELSE IF text[4] = 61 THEN <<b1, b2>>
                      ELSE <<b1, b2, b3>>
         IN group \o Base64Decode(SubSeq(text, 5, Len(text)))

\* C13: the proof key generate_proof_key returns has exactly 44 characters
\* and is the standard padded base64 text of the 32 bytes drawn: 43
\* characters of the base64 alphabet and one '=', decoding back to exactly
\* those bytes.
C13_ProofKeyIs44Chars ==
    sso.proof_key # <<>>
    => /\ Len(sso.randomness) = 32
       /\ Len(sso.proof_key) = 44
       /\ \A i \in 1..43 : Base64Value(sso.proof_key[i]) \in 0..63
       /\ sso.proof_key[44] = 61
       /\ Base64Decode(sso.proof_key) = sso.randomness

\* the key of 32 bytes 0xFF: 42 times '/', then "8="
C13_Witness ==
    /\ sso.randomness = [i \in 1..32 |-> 255]
    /\ Len(sso.proof_key) = 44
    /\ \A i \in 1..42 : sso.proof_key[i] = 47
    /\ sso.proof_key[43] = 56 /\ sso.proof_key[44] = 61

\* the login-completion request has been put together or handed to request()
LoginSubmitted ==
    sso.login_request # NoBrowserRequest \/ calls[SsoCall].pc # "idle"

\* the listener could not be bound, or wait_for_token has returned an error
\* (accepting, reading or extracting the token failed)
ListenerStepFailed ==
    \/ listener.state = "failed"
    \/ wft.pc = "returned" /\ wft.result.kind # "Ok"

\* C15: a login-completion request (intent LoginRequest, carrying the
\* token and the proof key) is submitted only after wait_for_token has
\* returned a token, which the line it read carried behind `/?token=`;
\* when binding, accepting, reading or extracting fails, no
\* login-completion request has been or is submitted, and the flow is in
\* Failed or takes its next step to Failed.
C15_LoginOnlyAfterToken ==
    /\ LoginSubmitted
       => /\ wft.pc = "returned" /\ wft.result.kind = "Ok"
          /\ Len(split_whitespace(wft.request_line)) >= 2
          /\ HasPrefix(split_whitespace(wft.request_line)[2], CallbackPrefix)
          /\ HasVisited("TokenReceived")
          /\ sso.login_request.token = wft.result.value
          /\ sso.login_request.proof_key = sso.proof_key /\ Len(sso.proof_key) = 44
          /\ calls[SsoCall].op = "request" /\ calls[SsoCall].intent = "LoginRequest"
    /\ ListenerStepFailed
       => /\ ~LoginSubmitted
          /\ sso.state \in {"AwaitingCallback", "Failed"}
          /\ sso.state = "AwaitingCallback" => ENABLED ReceiveToken
          /\ ~ENABLED (\E url_ok \in BOOLEAN, body_ok \in BOOLEAN :
                            SubmitLogin(SsoCall, url_ok, body_ok))
          /\ sso.state = "Failed"
             => sso.reason \in {"BindFailed", "LocalAddrFailed", "AcceptFailed", "ReadFailed",
                                "InvalidRequest", "MissingToken", "DecodeFailed"}

\* the login call is on its way with the token " xyz" of
\* `GET /?token=%20xyz HTTP/1.1`
C15_Witness ==
    /\ sso.state = "LoginSubmitted"
    /\ calls[SsoCall].pc = "sending" /\ calls[SsoCall].intent = "LoginRequest"
    /\ sso.login_request.token = <<32, 120, 121, 122>>
    /\ wft.result = OkToken(<<32, 120, 121, 122>>)

\* the callback asked for /callback: the flow has failed with MissingToken
\* and no login was submitted
C15_FailedWitness ==
    /\ sso.state = "Failed" /\ sso.reason = "MissingToken"
    /\ ~LoginSubmitted

\* wait_for_token is inside accept() with no connection waiting, or inside
\* read_line() with neither a line end nor the end of the stream (nor a
\* reset) on the connection
WaitingForPeer ==
    \/ wft.pc = "accept" /\ backlog = 0
    \/ wft.pc = "read_line" /\ ~HasLineEnd(stream.inbuf) /\ ~stream.eof /\ ~stream.reset

\* C18 as stated: wait_for_token returns only after one connection has been
\* accepted and a request line, or the end of the stream, has been read
\* from it; until then the call does not return and the flow stays in
\* AwaitingCallback.
C18_ReturnsOnlyAfterLineRead ==
    /\ wft.pc = "returned"
       => accepted = 1 /\ (HasLineEnd(stream.inbuf) \/ stream.eof)
    /\ wft.pc \in {"accept", "read_line", "write"} => sso.state = "AwaitingCallback"

\* C18 as amended: wait_for_token has no timeout and no cancellation path.
\* It returns only after one connection has been accepted and a request
\* line, or the end of the stream, has been read from it, or with the
\* error of a failed accept (AcceptFailed, nothing accepted) or of a failed
\* read (ReadFailed); while no connection is waiting, and while the
\* accepted peer has neither sent a line end nor closed nor been reset, no
\* step of the call other than a failing accept is possible, the call has
\* not returned and the flow stays in AwaitingCallback, which it leaves only
\* once the call has returned.
C18_NoTimeoutNoCancellation ==
    /\ wft.pc = "returned"
       => \/ accepted = 0 /\ wft.result.kind = "AcceptFailed"
          \/ accepted = 1 /\ wft.result.kind = "ReadFailed"
          \/ /\ accepted = 1 /\ (HasLineEnd(stream.inbuf) \/ stream.eof)
             /\ wft.result.kind \in {"Ok", "InvalidRequest", "MissingToken", "DecodeFailed"}
    /\ WaitingForPeer
       => /\ ~ENABLED accept(TRUE)
          /\ ~ENABLED read_line
          /\ ~ENABLED write_all
          /\ ~ENABLED ReceiveToken
    /\ wft.pc \in {"accept", "read_line", "write"} => sso.state = "AwaitingCallback"
    /\ sso.state \in {"TokenReceived", "LoginSubmitted", "Authenticated"}
       => wft.pc = "returned"

\* the peer has sent `GET /?token=xyz HTTP/1.1` without a line end and
\* stays connected, and no other client can connect: the flow waits
C18_Witness ==
    /\ sso.state = "AwaitingCallback"
    /\ wft.pc = "read_line"
    /\ stream.inbuf = GetSp \o CallbackPrefix \o Xyz \o Http11
    /\ ~stream.eof /\ ~stream.reset
    /\ connects = MaxClients

\* nobody has connected: the flow waits inside accept()
C18_AcceptWitness ==
    /\ sso.state = "AwaitingCallback"
    /\ wft.pc = "accept" /\ backlog = 0 /\ connects = 0

====
